---- MODULE Spec2Model ----
(***************************************************************************)
(* Order placement of the goecom storefront backend.                       *)
(*                                                                         *)
(* The committed rows of the PostgreSQL tables products, cart_items,       *)
(* orders and order_items are the shared state.  Every request is handled  *)
(* by its own goroutine; a request that runs several SQL statements takes  *)
(* one step per statement, so the statements of concurrent requests        *)
(* interleave.  PostgreSQL runs at its default isolation level (read       *)
(* committed): the writes of a transaction are buffered in the request     *)
(* until COMMIT, a row written by an open transaction is locked against    *)
(* other writers, and every statement reads the rows committed so far.     *)
(***************************************************************************)
EXTENDS Integers, Sequences, FiniteSets, TLC

\* ------------------------------------------------------------------ bounds
MaxStock == 2        \* the stock of a product starts in 0..MaxStock
MaxQty == 2          \* quantities of a cart row are 1..MaxQty
MaxPrice == 2        \* price_cents of a product update is 1..MaxPrice
MaxRequests == 1     \* cart, admin and payment requests served in a run
MaxOrders == 3       \* orders in the table when the read requests start
MaxCreated == 2      \* created_at of those orders is 1..MaxCreated
MaxLimit == 2        \* RATE_LIMIT_REQUESTS is 0..MaxLimit
MaxWindow == 2       \* RATE_LIMIT_WINDOW_MINUTES is 1..MaxWindow
MaxTime == 12        \* the clock of the rate limiter runs from 0 to MaxTime minutes

Users == {"u1", "u2"}
Products == {"p1", "p2"}
Addresses == {"a1", "a2"}
Workers == {"w1", "w2"}        \* concurrent POST /orders requests
Slots == {"x1", "x2"}          \* concurrent cart, admin and payment requests
Statuses == {"pending", "paid", "shipped", "cancelled"}
ClientIPs == {"ip1", "ip2"}
NoField == -1                  \* a nil pointer field of UpdateProductRequest
NoUser == "-"
NoTx == "pool"                 \* a statement run on the pool commits itself
Nil == 0                       \* "no order" where an order id is expected
NoRow == <<>>                  \* "no row" where a cart row id is expected
NoPayment == <<>>              \* orders.payment_info of an order never charged

VARIABLES
  stock,        \* products.stock, by product
  price,        \* products.price_cents, by product
  cart,         \* committed cart_items rows [id, user, product, quantity]
  orders,       \* committed orders rows [id, user, total, status, addr, payment]
  orderItems,   \* committed order_items rows [order, line, product, price, quantity]
  place,        \* the CreateOrder request of each worker
  aux,          \* the cart, admin or payment request of each slot
  limiter       \* the RateLimiter, the clock it reads and its requests so far

vars == <<stock, price, cart, orders, orderItems, place, aux, limiter>>
db == <<stock, price, cart, orders, orderItems>>

\* ------------------------------------------------------------------ helpers
\* The sum of the quantities of a set of rows.
RECURSIVE SumQuantity(_)
SumQuantity(S) ==
  IF S = {} THEN 0
  ELSE LET x == CHOOSE y \in S : TRUE IN x.quantity + SumQuantity(S \ {x})

\* The sum of price * quantity over a set of rows.
RECURSIVE SumSubtotal(_)
SumSubtotal(S) ==
  IF S = {} THEN 0
  ELSE LET x == CHOOSE y \in S : TRUE IN x.price * x.quantity + SumSubtotal(S \ {x})

Range(s) == {s[k] : k \in 1..Len(s)}

\* All the orders in which a query without ORDER BY may return the rows S.
Orderings(S) ==
  {f \in [1..Cardinality(S) -> S] : \A x \in S : \E k \in 1..Cardinality(S) : f[k] = x}

\* uuid.New(): an id no row and no request holds.
FreshId(used) == CHOOSE n \in 1..(Cardinality(used) + 1) : n \notin used

\* The id of a new cart row of user u and product p (BeforeCreate's uuid.New()).
FreshCartId(u, p, used) == <<u, p, FreshId({id[3] : id \in {x \in used : x[1] = u /\ x[2] = p}})>>

IdlePlace ==
  [pc |-> "idle", user |-> NoUser, addr |-> NoUser, cartItems |-> <<>>, i |-> 1,
   totalCents |-> 0, orderItems |-> <<>>, dec |-> [p \in Products |-> 0],
   order |-> Nil, created |-> 0, del |-> {}, result |-> "none", http |-> 0]

IdleAux == [op |-> "idle", n |-> 0]

\* NewRateLimiter(requests, windowMinutes): no client yet.  `since` is, for each
\* client, the time of the latest reset of its bucket (-1 for none) and the
\* requests allowed from that reset on; `last` is the latest answer of allow.
NewRateLimiter(requests, windowMinutes) ==
  [requests |-> requests, windowMinutes |-> windowMinutes, now |-> 0,
   clients |-> [ip \in {} |-> 0],
   since |-> [ip \in ClientIPs |-> [reset |-> -1, allowed |-> 0]],
   last |-> [ip |-> NoUser, ok |-> TRUE]]

\* The cart_items rows of a table holding the quantities q, 0 for no row.
CartRows(q) ==
  {[id |-> <<up[1], up[2], 1>>, user |-> up[1], product |-> up[2], quantity |-> q[up]] :
     up \in {x \in Users \X Products : q[x] > 0}}

Init ==
  /\ stock \in [Products -> 0..MaxStock]
  /\ price = [p \in Products |-> IF p = "p1" THEN 1 ELSE MaxPrice]
  /\ \E q \in [Users \X Products -> 0..MaxQty] : cart = CartRows(q)
  /\ orders = {}
  /\ orderItems = {}
  /\ place = [w \in Workers |-> IdlePlace]
  /\ aux = [x \in Slots |-> IdleAux]
  /\ limiter = NewRateLimiter(MaxLimit, MaxWindow)

\* ------------------------------------------------------------ transactions
InTx == {"tx", "create", "items", "clear", "commit"}

\* The transaction, if any, that holds the row lock of product p: the one with
\* an uncommitted UPDATE of the row.
ProductLockedBy(p) == {w \in Workers : place[w].pc \in InTx /\ place[w].dec[p] > 0}

\* The transaction, if any, with an uncommitted DELETE of cart row id.
CartRowLockedBy(id) == {w \in Workers : place[w].pc \in InTx /\ id \in place[w].del}

CartIdsInUse ==
  {r.id : r \in cart}
    \cup UNION {{it.id : it \in Range(place[w].cartItems)} : w \in Workers}
    \cup {aux[x].existing : x \in {y \in Slots : aux[y].op = "add" /\ aux[y].existing # NoRow}}

OrderIdsInUse ==
  {o.id : o \in orders} \cup {place[w].order : w \in Workers}
    \cup {aux[x].order.id : x \in {y \in Slots : aux[y].op \in {"status", "charge"}}}

\* ------------------------------------------------------------------ cart
\* CartService.AddToCart up to the lookup of CartRepository.AddOrUpdate: the
\* product must exist with stock >= quantity, then the user's row of the product,
\* if there is one, is read.
AddToCart(x, u, p, q) ==
  /\ aux[x].op = "idle"
  /\ aux[x].n < MaxRequests
  /\ stock[p] >= q
  /\ \E e \in IF \E r \in cart : r.user = u /\ r.product = p
              THEN {r.id : r \in {c \in cart : c.user = u /\ c.product = p}}
              ELSE {NoRow} :
       aux' = [aux EXCEPT ![x] = [op |-> "add", n |-> aux[x].n + 1, user |-> u,
                                  product |-> p, quantity |-> q, existing |-> e]]
  /\ UNCHANGED <<db, place, limiter>>

\* The row Save(&existing) writes: the row read, with the requested quantity.
SavedCartRow(a) ==
  [id |-> a.existing, user |-> a.user, product |-> a.product, quantity |-> a.quantity]

\* The request of slot x has returned.
Served(x) == [aux EXCEPT ![x] = [op |-> "idle", n |-> aux[x].n]]

\* The request of slot x has returned at once, with resp for its client.
Responded(x, resp) == [aux EXCEPT ![x] = [op |-> "idle", n |-> aux[x].n + 1, last |-> resp]]

\* INSERT of a cart row.  The cart_items of migration 003 has UNIQUE(user_id,
\* product_id) and refuses a second row of the pair; the cart_items AutoMigrate
\* creates from CartItem has a plain index on the pair and takes it.
InsertCartRow(row, unique) ==
  IF unique /\ \E r \in cart : r.id # row.id /\ r.user = row.user /\ r.product = row.product
  THEN cart
  ELSE cart \cup {row}

\* The rest of AddOrUpdate: Save the row read (an UPDATE by primary key, which
\* waits for a transaction that deleted the row), or Create a new row.  When the
\* row read is gone by then, Save inserts it again or updates nothing, depending
\* on the gorm release.
AddOrUpdate(x, unique) ==
  /\ aux[x].op = "add"
  /\ IF aux[x].existing # NoRow
     THEN /\ CartRowLockedBy(aux[x].existing) = {}
          /\ IF \E r \in cart : r.id = aux[x].existing
             THEN cart' = {r \in cart : r.id # aux[x].existing} \cup {SavedCartRow(aux[x])}
             ELSE \E upsert \in BOOLEAN :
                    cart' = IF upsert THEN InsertCartRow(SavedCartRow(aux[x]), unique) ELSE cart
     ELSE cart' = InsertCartRow(
            [id |-> FreshCartId(aux[x].user, aux[x].product, CartIdsInUse),
             user |-> aux[x].user, product |-> aux[x].product,
             quantity |-> aux[x].quantity], unique)
  /\ aux' = Served(x)
  /\ UNCHANGED <<stock, price, orders, orderItems, place, limiter>>

\* A uuid that is the id of no cart row.
UnknownItem == <<NoUser, NoUser, 0>>

\* Mutant: the DELETE is not conditioned on the user.
DeleteMatches_AnyUser(r, id, userID) == r.id = id

\* CartRepository.Delete: WHERE id = ? AND user_id = ?
DeleteMatches(r, id, userID) == r.id = id /\ r.user = userID

\* CartService.RemoveFromCart, CartRepository.Delete: one DELETE on the pool,
\* which waits for a transaction that has deleted the row; the handler answers
\* 204 whether or not a row was deleted.
RemoveFromCart(x, userID, itemID) ==
  LET rows == {r \in cart : DeleteMatches(r, itemID, userID)}
  IN /\ aux[x].op = "idle"
     /\ aux[x].n < MaxRequests
     /\ \A r \in rows : CartRowLockedBy(r.id) = {}
     /\ cart' = cart \ rows
     /\ aux' = Responded(x, [call |-> "RemoveFromCart", user |-> userID,
                             item |-> itemID, status |-> 204])
     /\ UNCHANGED <<stock, price, orders, orderItems, place, limiter>>

\* CartService.ClearCart, CartRepository.Clear: DELETE ... WHERE user_id = ?.
ClearCartOf(x, userID) ==
  LET rows == {r \in cart : r.user = userID}
  IN /\ aux[x].op = "idle"
     /\ aux[x].n < MaxRequests
     /\ \A r \in rows : CartRowLockedBy(r.id) = {}
     /\ cart' = cart \ rows
     /\ aux' = Responded(x, [call |-> "ClearCart", user |-> userID])
     /\ UNCHANGED <<stock, price, orders, orderItems, place, limiter>>

\* CartRepository.GetByUserID: the user's rows, each with its product preloaded.
GetByUserID(u) ==
  {[id |-> r.id, product |-> r.product, quantity |-> r.quantity,
    stock |-> stock[r.product], price |-> price[r.product]] :
     r \in {c \in cart : c.user = u}}

\* ---------------------------------------------------------- order placement
\* Mutant: the transaction commits whatever fn returns.
WithTransaction_IgnoresErr(err) == "commit"

\* DB.WithTransaction: gorm commits when fn returns nil and rolls back otherwise.
WithTransaction(err) == IF err = "nil" THEN "commit" ELSE "rollback"

\* Mutant: the UPDATE runs on the pool, outside the caller's transaction.
DecrementStockDB_Pool(tx) == NoTx

\* The handle DecrementStock runs its UPDATE on: the caller's transaction.
DecrementStockDB(tx) == IF tx # NoTx THEN tx ELSE NoTx

\* Mutant: the UPDATE is conditioned on some stock being left, not on enough.
DecrementStockMatches_AnyStock(cur, quantity) == cur > 0

\* Mutant: the UPDATE is not conditioned on the stock.
DecrementStockMatches_Always(cur, quantity) == TRUE

\* WHERE id = ? AND stock >= ?
DecrementStockMatches(cur, quantity) == cur >= quantity

\* Mutant: the UPDATE takes one unit whatever the quantity.
DecrementStockValue_One(cur, quantity) == cur - 1

\* Update("stock", gorm.Expr("stock - ?", quantity))
DecrementStockValue(cur, quantity) == cur - quantity

\* Mutant: the subtotal ignores the quantity.
Subtotal_UnitPrice(priceCents, quantity) == priceCents

\* subtotal := cartItem.Product.PriceCents * cartItem.Quantity
Subtotal(priceCents, quantity) == priceCents * quantity

\* Mutant: the line item takes the product's current price, not the snapshot's.
StagedItem_CurrentPrice(cartItem) ==
  [product |-> cartItem.product, price |-> price[cartItem.product],
   quantity |-> cartItem.quantity]

\* Mutant: the line item is staged with quantity 1.
StagedItem_One(cartItem) ==
  [product |-> cartItem.product, price |-> cartItem.price, quantity |-> 1]

\* The store.OrderItem staged for a cart item of the snapshot.
StagedItem(cartItem) ==
  [product |-> cartItem.product, price |-> cartItem.price, quantity |-> cartItem.quantity]

\* The orders row of a transaction, and its order_items rows.
TxOrder(w) ==
  [id |-> place[w].order, user |-> place[w].user, total |-> place[w].totalCents,
   status |-> "pending", addr |-> place[w].addr, payment |-> NoPayment,
   created |-> place[w].created]

TxOrderItems(w) ==
  {[order |-> place[w].order, line |-> k, product |-> place[w].orderItems[k].product,
    price |-> place[w].orderItems[k].price, quantity |-> place[w].orderItems[k].quantity] :
     k \in 1..Len(place[w].orderItems)}

\* What the end of worker w's transaction does to the tables: COMMIT publishes
\* the buffered writes, ROLLBACK drops them.
EndTx(w, outcome) ==
  IF outcome = "commit"
  THEN /\ stock' = [p \in Products |-> stock[p] - place[w].dec[p]]
       /\ orders' = orders \cup
            (IF place[w].pc \in {"items", "clear", "commit"} THEN {TxOrder(w)} ELSE {})
       /\ orderItems' = orderItems \cup
            (IF place[w].pc \in {"clear", "commit"} THEN TxOrderItems(w) ELSE {})
       /\ cart' = {r \in cart : r.id \notin place[w].del}
       /\ UNCHANGED price
  ELSE UNCHANGED db

\* OrderHandler.CreateOrder, lines 179-188: 400 with the error for every error
\* of the service, 201 with the order otherwise.
CreateOrderStatus(result) == IF result # "ok" THEN 400 ELSE 201

\* The request after fn returned err: CreateOrder returns (nil, err).
Failed(w, err) ==
  [place[w] EXCEPT !.pc = "done", !.result = err, !.http = CreateOrderStatus(err),
                   !.addr = NoUser, !.totalCents = 0,
                   !.orderItems = <<>>, !.dec = [p \in Products |-> 0],
                   !.order = Nil, !.created = 0, !.del = {}]

\* fn returns err: the transaction ends and the request fails.
Abort(w, err) ==
  /\ EndTx(w, WithTransaction(err))
  /\ place' = [place EXCEPT ![w] = Failed(w, err)]
  /\ UNCHANGED <<aux, limiter>>

\* Mutant: the empty-cart check is missing.
CartIsEmpty_Never(cartItems) == FALSE

\* if len(cartItems) == 0
CartIsEmpty(cartItems) == Len(cartItems) = 0

\* Where fn stands with k items of the snapshot done: in the loop, or past it.
LoopPc(cartItems, k) == IF k < Len(cartItems) THEN "tx" ELSE "create"

\* CreateOrder, lines 43-51: the cart snapshot; an empty cart ends the request
\* before any transaction is opened.
CreateOrder(w, u) ==
  /\ place[w].pc = "idle"
  /\ \E items \in Orderings(GetByUserID(u)) :
       place' = [place EXCEPT ![w] =
         IF CartIsEmpty(items)
         THEN [IdlePlace EXCEPT !.pc = "done", !.user = u, !.result = "empty",
                                !.http = CreateOrderStatus("empty")]
         ELSE [IdlePlace EXCEPT !.pc = LoopPc(items, 0), !.user = u, !.cartItems = items]]
  /\ UNCHANGED <<db, aux, limiter>>

InsufficientStockError == {"insufficient stock (snapshot)", "insufficient stock (update)"}

\* The stock of p that a statement of handle db sees and writes: a transaction
\* sees its own uncommitted decrements on top of the committed row.
CurrentStock(dbh, p) == IF dbh = NoTx THEN stock[p] ELSE stock[p] - place[dbh].dec[p]

\* CreateOrder, lines 62-86: one iteration of the loop over the snapshot, with
\* ProductRepository.DecrementStock (lines 143-162) as its statement.  The UPDATE
\* waits while another transaction holds the row lock of the product.
CreateOrderItem(w) ==
  LET r == place[w]
      cartItem == r.cartItems[r.i]
      p == cartItem.product
      dbh == DecrementStockDB(w)
      cur == CurrentStock(dbh, p)
      next == [r EXCEPT !.i = r.i + 1,
                        !.pc = LoopPc(r.cartItems, r.i),
                        !.totalCents = r.totalCents + Subtotal(cartItem.price, cartItem.quantity),
                        !.orderItems = Append(r.orderItems, StagedItem(cartItem))]
  IN /\ r.pc = "tx"
     /\ IF cartItem.stock < cartItem.quantity
        THEN Abort(w, "insufficient stock (snapshot)")
        ELSE /\ ProductLockedBy(p) \subseteq {w}
             /\ IF ~DecrementStockMatches(cur, cartItem.quantity)
                THEN Abort(w, "insufficient stock (update)")
                ELSE IF dbh = NoTx
                THEN /\ stock' = [stock EXCEPT ![p] = DecrementStockValue(cur, cartItem.quantity)]
                     /\ place' = [place EXCEPT ![w] = next]
                     /\ UNCHANGED <<price, cart, orders, orderItems, aux, limiter>>
                ELSE /\ place' = [place EXCEPT ![w] =
                           [next EXCEPT !.dec[p] =
                              stock[p] - DecrementStockValue(cur, cartItem.quantity)]]
                     /\ UNCHANGED <<db, aux, limiter>>

\* The latest created_at gorm has given an order so far, committed or not.
LatestCreated ==
  LET times == {o.created : o \in orders} \cup {place[w].created : w \in Workers}
  IN CHOOSE t \in times \cup {0} : \A t2 \in times : t2 <= t

\* NowFunc at tx.Create(order): the clock has not gone back since the latest
\* order was created, and it need not have advanced (created_at has the
\* resolution of the column).
NowFunc == {t \in {LatestCreated, LatestCreated + 1} : t >= 1}

\* CreateOrder, lines 89-99: tx.Create(order); BeforeCreate gives the row its id
\* and gorm its created_at.  req.ShippingAddress, the request's other input, is
\* first used here.
CreateOrderRow(w, addr) ==
  /\ place[w].pc = "create"
  /\ \E now \in NowFunc :
       place' = [place EXCEPT ![w].pc = "items", ![w].addr = addr,
                              ![w].order = FreshId(OrderIdsInUse),
                              ![w].created = now]
  /\ UNCHANGED <<db, aux, limiter>>

\* CreateOrder, lines 102-108: tx.Create(&orderItems).
CreateOrderItems(w) ==
  /\ place[w].pc = "items"
  /\ place' = [place EXCEPT ![w].pc = "clear"]
  /\ UNCHANGED <<db, aux, limiter>>

\* CreateOrder, lines 111-113: DELETE FROM cart_items WHERE user_id = ?.  The rows
\* are those committed when the statement runs; it waits for a transaction that
\* has deleted one of them.
ClearCart(w) ==
  LET rows == {r \in cart : r.user = place[w].user}
  IN /\ place[w].pc = "clear"
     /\ \A r \in rows : CartRowLockedBy(r.id) \subseteq {w}
     /\ place' = [place EXCEPT ![w].pc = "commit", ![w].del = {r.id : r \in rows}]
     /\ UNCHANGED <<db, aux, limiter>>

\* fn returned nil: WithTransaction commits.
Commit(w) ==
  /\ place[w].pc = "commit"
  /\ EndTx(w, WithTransaction("nil"))
  /\ place' = [place EXCEPT ![w] =
       [@ EXCEPT !.pc = "load", !.addr = NoUser, !.i = 1, !.totalCents = 0, !.orderItems = <<>>,
                 !.dec = [p \in Products |-> 0], !.created = 0, !.del = {}]]
  /\ UNCHANGED <<aux, limiter>>

\* CreateOrder, line 123: the order is loaded again and returned.
LoadOrder(w) ==
  /\ place[w].pc = "load"
  /\ place' = [place EXCEPT ![w].pc = "done", ![w].result = "ok",
                            ![w].http = CreateOrderStatus("ok")]
  /\ UNCHANGED <<db, aux, limiter>>

\* CreateOrder, line 123, with GetByID failing (connection lost, request
\* context cancelled): CreateOrder returns (nil, err) after the commit.
LoadError(w) ==
  /\ place[w].pc = "load"
  /\ place' = [place EXCEPT ![w].pc = "done", ![w].result = "persistence",
                            ![w].http = CreateOrderStatus("persistence")]
  /\ UNCHANGED <<db, aux, limiter>>

\* A statement of the transaction fails in the database (connection lost,
\* context cancelled): fn returns the error.
TxError(w) ==
  /\ place[w].pc \in InTx
  /\ Abort(w, "persistence")

\* Mutant: PostgreSQL never finds a cycle of lock waits.
WaitsFor_None(w) == {}

\* The transactions whose row locks the next statement of w waits for.
WaitsFor(w) ==
  IF place[w].pc = "tx"
  THEN LET cartItem == place[w].cartItems[place[w].i]
       IN IF cartItem.stock < cartItem.quantity THEN {}
          ELSE ProductLockedBy(cartItem.product) \ {w}
  ELSE IF place[w].pc = "clear"
  THEN UNION {CartRowLockedBy(r.id) : r \in {c \in cart : c.user = place[w].user}} \ {w}
  ELSE {}

RECURSIVE WaitsForChain(_, _)
WaitsForChain(S, n) ==
  IF n = 0 THEN S ELSE WaitsForChain(S \cup UNION {WaitsFor(x) : x \in S}, n - 1)

\* PostgreSQL ends a cycle of lock waits by failing the statement of one of the
\* transactions in it.
DeadlockDetected(w) ==
  /\ place[w].pc \in InTx
  /\ w \in WaitsForChain(WaitsFor(w), Cardinality(Workers))
  /\ Abort(w, "deadlock")

\* ------------------------------------------------------------------ admin
\* ProductService.UpdateProduct, lines 206-212: the product row is read.
UpdateProduct(x, p, reqPrice, reqStock) ==
  /\ aux[x].op = "idle"
  /\ aux[x].n < MaxRequests
  /\ aux' = [aux EXCEPT ![x] =
       [op |-> "product", n |-> aux[x].n + 1, product |-> p,
        read |-> [price |-> price[p], stock |-> stock[p]],
        req |-> [price |-> reqPrice, stock |-> reqStock]]]
  /\ UNCHANGED <<db, place, limiter>>

\* UpdateProduct, lines 214-232: the fields the request sets replace those read.
UpdatedProduct(product, req) ==
  [price |-> IF req.price # NoField THEN req.price ELSE product.price,
   stock |-> IF req.stock # NoField THEN req.stock ELSE product.stock]

\* The columns ProductRepository.Update writes: Save writes every column of the
\* struct it is given.
SavedProductColumns(product) == {"price", "stock"}

\* UpdateProduct, line 234, ProductRepository.Update: an UPDATE by primary key,
\* which waits while a transaction holds the row lock of the product.
SaveProduct(x) ==
  LET a == aux[x]
      product == UpdatedProduct(a.read, a.req)
  IN /\ a.op = "product"
     /\ ProductLockedBy(a.product) = {}
     /\ price' = IF "price" \in SavedProductColumns(product)
                 THEN [price EXCEPT ![a.product] = product.price] ELSE price
     /\ stock' = IF "stock" \in SavedProductColumns(product)
                 THEN [stock EXCEPT ![a.product] = product.stock] ELSE stock
     /\ aux' = Served(x)
     /\ UNCHANGED <<cart, orders, orderItems, place, limiter>>

\* Mutant: every status is accepted.
ValidStatus_Any(status) == TRUE

\* validStatuses[status]
ValidStatus(status) == status \in Statuses

\* Mutant: a shipped order keeps its status.
WithStatus_KeepShipped(order, status) ==
  IF order.status = "shipped" THEN order ELSE [order EXCEPT !.status = status]

\* order.Status = status
WithStatus(order, status) == [order EXCEPT !.status = status]

\* OrderService.UpdateOrderStatus, lines 157-177: a status outside the
\* allow-list is refused before the order is looked up, then a missing order is
\* refused; otherwise the order row is read and given the status, to be saved.
UpdateOrderStatus(x, orderID, status) ==
  LET resp(err) == [call |-> "UpdateOrderStatus", order |-> orderID, req |-> status,
                    err |-> err, status |-> 400]
  IN /\ aux[x].op = "idle"
     /\ aux[x].n < MaxRequests
     /\ aux' = IF ~ValidStatus(status) THEN Responded(x, resp("invalid order status"))
               ELSE IF ~\E o \in orders : o.id = orderID
               THEN Responded(x, resp("order not found"))
               ELSE [aux EXCEPT ![x] =
                      [op |-> "status", n |-> aux[x].n + 1, req |-> status,
                       order |-> WithStatus(CHOOSE o \in orders : o.id = orderID, status)]]
     /\ UNCHANGED <<db, place, limiter>>

\* OrderRepository.Update: Save writes every column of the row it was given.
SaveOrder(x) ==
  /\ aux[x].op \in {"status", "charge"}
  /\ orders' = {o \in orders : o.id # aux[x].order.id} \cup {aux[x].order}
  /\ aux' = Served(x)
  /\ UNCHANGED <<stock, price, cart, orderItems, place, limiter>>

\* if order.Status == "paid": the only status ProcessCharge refuses.
Chargeable(order) == order.status # "paid"

\* PaymentService.ProcessCharge, lines 43-67: the order is read; it must exist, be
\* the user's and not be paid; when the simulated payment succeeds the order read
\* is marked paid with a new transaction id, to be saved.  A failed payment
\* changes nothing.
ProcessCharge(x, userID, orderID, success) ==
  LET resp(err) == [call |-> "ProcessCharge", order |-> orderID, user |-> userID,
                    err |-> err]
      order == CHOOSE o \in orders : o.id = orderID
  IN /\ aux[x].op = "idle"
     /\ aux[x].n < MaxRequests
     /\ aux' = IF ~\E o \in orders : o.id = orderID THEN Responded(x, resp("order not found"))
               ELSE IF order.user # userID
               THEN Responded(x, resp("unauthorized to process payment for this order"))
               ELSE IF ~Chargeable(order) THEN Responded(x, resp("order is already paid"))
               ELSE IF ~success THEN Responded(x, resp("nil"))
               ELSE [aux EXCEPT ![x] =
                      [op |-> "charge", n |-> aux[x].n + 1,
                       order |-> [order EXCEPT !.status = "paid",
                                               !.payment = <<x, aux[x].n + 1>>]]]
     /\ UNCHANGED <<db, place, limiter>>

\* ------------------------------------------------------------------ reads
\* Mutant: every order passes the ownership check.
OwnsOrder_Any(order, userID) == TRUE

\* if order.UserID != userID: the ownership check of GetOrder.
OwnsOrder(order, userID) == order.user = userID

\* OrderService.GetOrder: the error it returns, "nil" for none.  The lookup
\* comes first; dbFails is GetByID failing for another reason than a missing row.
GetOrderErr(orderID, userID, dbFails) ==
  IF dbFails THEN "failed to get order"
  ELSE IF ~\E o \in orders : o.id = orderID THEN "order not found"
  ELSE IF ~OwnsOrder(CHOOSE o \in orders : o.id = orderID, userID)
  THEN "unauthorized to view this order"
  ELSE "nil"

\* OrderHandler.GetOrder: 404 with the error for every error of the service, 200
\* with the order otherwise.
GetOrder(x, orderID, userID, dbFails) ==
  LET err == GetOrderErr(orderID, userID, dbFails)
  IN /\ aux[x].op = "idle"
     /\ aux[x].n < MaxRequests
     /\ aux' = Responded(x,
          [call |-> "GetOrder", order |-> orderID, user |-> userID, err |-> err,
           data |-> IF err = "nil" THEN {o \in orders : o.id = orderID} ELSE {},
           status |-> IF err = "nil" THEN 200 ELSE 404])
     /\ UNCHANGED <<db, place, limiter>>

\* Go's int is 64 bits wide here: four 16-bit limbs, least significant first,
\* in two's complement.
Limb == 65536

Int64(n) == IF n >= 0 THEN <<n, 0, 0, 0>> ELSE <<Limb + n, Limb - 1, Limb - 1, Limb - 1>>

\* 2^62 + 1, a page number strconv.Atoi accepts.
BigPage == <<1, 0, 0, Limb \div 4>>

IsNegative(v) == v[4] >= Limb \div 2

\* v < 1
LessThanOne(v) == IsNegative(v) \/ v = Int64(0)

\* v - 1, for v >= 1.
Decrement(v) ==
  IF v[1] > 0 THEN <<v[1] - 1, v[2], v[3], v[4]>>
  ELSE IF v[2] > 0 THEN <<Limb - 1, v[2] - 1, v[3], v[4]>>
  ELSE IF v[3] > 0 THEN <<Limb - 1, Limb - 1, v[3] - 1, v[4]>>
  ELSE <<Limb - 1, Limb - 1, Limb - 1, v[4] - 1>>

\* v * k in 64 bits, for 0 <= k < Limb: the carry out of the top limb is lost.
Multiply(v, k) ==
  LET m1 == v[1] * k
      m2 == v[2] * k + (m1 \div Limb)
      m3 == v[3] * k + (m2 \div Limb)
      m4 == v[4] * k + (m3 \div Limb)
  IN <<m1 % Limb, m2 % Limb, m3 % Limb, m4 % Limb>>

\* The rows an OFFSET of v skips: v itself while it is below Limb, Limb (more
\* than any table of the model holds) above that.  gorm writes no OFFSET clause
\* for a value that is not positive.
OffsetRows(v) ==
  IF IsNegative(v) THEN 0
  ELSE IF v[2] = 0 /\ v[3] = 0 /\ v[4] = 0 THEN v[1]
  ELSE Limb

\* if page < 1 { page = 1 }
ClampPage(page) == IF LessThanOne(page) THEN Int64(1) ELSE page

\* if size < 1 { size = 20 }; if size > 100 { size = 100 }
ClampSize(size) == IF size < 1 THEN 20 ELSE IF size > 100 THEN 100 ELSE size

\* offset := (page - 1) * size, on the clamped values.
Offset(page, size) == Multiply(Decrement(ClampPage(page)), ClampSize(size))

\* The orders in which ORDER BY created_at DESC may return the rows S: rows of
\* equal created_at come in any order.
NewestFirst(S) ==
  {f \in Orderings(S) : \A i, j \in 1..Cardinality(S) : i < j => f[i].created >= f[j].created}

\* OFFSET offset LIMIT limit of the sequence f.
Page(f, offset, limit) ==
  LET from == offset + 1
      to == IF offset + limit < Len(f) THEN offset + limit ELSE Len(f)
  IN IF from > Len(f) THEN <<>> ELSE [k \in 1..(to - from + 1) |-> f[from + k - 1]]

\* The ids of a sequence of rows.
Ids(f) == [k \in 1..Len(f) |-> f[k].id]

\* The response of the two list handlers for the rows matching the query: the
\* count of all of them and one page of one of their newest-first orders.
ListResponse(call, userID, matching, page, size) ==
  {[call |-> call, user |-> userID, page |-> page, size |-> size,
    limit |-> ClampSize(size), offset |-> OffsetRows(Offset(page, size)),
    items |-> Ids(Page(f, OffsetRows(Offset(page, size)), ClampSize(size))),
    total |-> Cardinality(matching), status |-> 200] : f \in NewestFirst(matching)}

\* OrderHandler.ListUserOrders with OrderRepository.GetByUserID.
ListUserOrders(x, userID, page, size) ==
  /\ aux[x].op = "idle"
  /\ aux[x].n < MaxRequests
  /\ \E resp \in ListResponse("ListUserOrders", userID,
                                {o \in orders : o.user = userID}, page, size) :
       aux' = Responded(x, resp)
  /\ UNCHANGED <<db, place, limiter>>

\* OrderHandler.ListAllOrders with OrderRepository.List.
ListAllOrders(x, page, size) ==
  /\ aux[x].op = "idle"
  /\ aux[x].n < MaxRequests
  /\ \E resp \in ListResponse("ListAllOrders", NoUser, orders, page, size) :
       aux' = Responded(x, resp)
  /\ UNCHANGED <<db, place, limiter>>

\* ------------------------------------------------------------ specifications
\* The placements that have committed, and the order_items rows of product p.
Committed(w) == place[w].pc \in {"load", "done"} /\ place[w].order # Nil
ItemsOf(p) == {it \in orderItems : it.product = p}
ItemsOfOrder(id) == {it \in orderItems : it.order = id}
CartOf(u) == {r \in cart : r.user = u}

PlaceStep(w) ==
  \/ \E u \in Users : CreateOrder(w, u)
  \/ CreateOrderItem(w)
  \/ \E a \in Addresses : CreateOrderRow(w, a)
  \/ CreateOrderItems(w)
  \/ ClearCart(w)
  \/ Commit(w)
  \/ LoadOrder(w)
  \/ LoadError(w)
  \/ TxError(w)

AuxStep(x) ==
  \/ \E u \in Users, p \in Products, q \in 1..MaxQty : AddToCart(x, u, p, q)
  \/ \E unique \in BOOLEAN : AddOrUpdate(x, unique)
  \/ \E p \in Products, rp \in {NoField} \cup (1..MaxPrice), rs \in {NoField} \cup (0..MaxStock) :
       UpdateProduct(x, p, rp, rs)
  \/ SaveProduct(x)
  \/ \E o \in orders, st \in Statuses : UpdateOrderStatus(x, o.id, st)
  \/ \E o \in orders : ProcessCharge(x, o.user, o.id, TRUE)
  \/ SaveOrder(x)

\* An orders row as a placement leaves it, with its one line item.
OrderRow(id, u, t, st) ==
  [id |-> id, user |-> u, total |-> 1, status |-> st, addr |-> "a1", payment |-> NoPayment,
   created |-> t]

OrderRowItems(S) ==
  {[order |-> o.id, line |-> 1, product |-> "p1", price |-> 1, quantity |-> 1] : o \in S}

\* The state after some placements: a table of up to MaxOrders orders, here all
\* pending, of any users and creation times; the carts are empty.
InitList ==
  /\ stock = [p \in Products |-> 0]
  /\ price = [p \in Products |-> IF p = "p1" THEN 1 ELSE MaxPrice]
  /\ cart = {}
  /\ \E n \in 0..MaxOrders : \E u \in [1..n -> Users], t \in [1..n -> 1..MaxCreated] :
       orders = {OrderRow(k, u[k], t[k], "pending") : k \in 1..n}
  /\ orderItems = OrderRowItems(orders)
  /\ place = [w \in Workers |-> IdlePlace]
  /\ aux = [x \in Slots |-> IdleAux]
  /\ limiter = NewRateLimiter(MaxLimit, MaxWindow)

PageInputs == {Int64(-1), Int64(0), Int64(1), Int64(2), BigPage}
SizeInputs == {0, 1, 2, 100, 101}

ReadStep(x) ==
  \/ \E id \in 1..(MaxOrders + 1), u \in Users, dbFails \in BOOLEAN : GetOrder(x, id, u, dbFails)
  \/ \E u \in Users, page \in PageInputs, size \in SizeInputs : ListUserOrders(x, u, page, size)
  \/ \E page \in PageInputs, size \in SizeInputs : ListAllOrders(x, page, size)

\* Read requests, one after the other or concurrent, on an orders table.
NextList == \E x \in Slots : ReadStep(x)

SpecList == InitList /\ [][NextList]_vars

\* The state after some placements, charges and status updates: a table of up to
\* MaxOrders orders of any users and statuses, the paid ones with the transaction
\* id of their charge.
InitStatus ==
  /\ stock = [p \in Products |-> 0]
  /\ price = [p \in Products |-> IF p = "p1" THEN 1 ELSE MaxPrice]
  /\ cart = {}
  /\ \E n \in 0..MaxOrders : \E u \in [1..n -> Users], st \in [1..n -> Statuses] :
       orders = {[OrderRow(k, u[k], k, st[k]) EXCEPT
                    !.payment = IF st[k] = "paid" THEN <<"x0", 1>> ELSE NoPayment] : k \in 1..n}
  /\ orderItems = OrderRowItems(orders)
  /\ place = [w \in Workers |-> IdlePlace]
  /\ aux = [x \in Slots |-> IdleAux]
  /\ limiter = NewRateLimiter(MaxLimit, MaxWindow)

StatusInputs == Statuses \cup {"refunded"}

StatusStep(x) ==
  \/ \E id \in 1..(MaxOrders + 1), st \in StatusInputs : UpdateOrderStatus(x, id, st)
  \/ \E id \in 1..(MaxOrders + 1), u \in Users, success \in BOOLEAN :
       ProcessCharge(x, u, id, success)
  \/ SaveOrder(x)

\* Concurrent status updates and charges on an orders table.
NextStatus == \E x \in Slots : StatusStep(x)

SpecStatus == InitStatus /\ [][NextStatus]_vars

\* The item ids a DELETE /cart/:item_id may name: those of the rows in the
\* carts, of any user, and one of no row.
ItemInputs == {r.id : r \in cart} \cup {UnknownItem}

CartStep(x) ==
  \/ \E u \in Users, p \in Products, q \in 1..MaxQty : AddToCart(x, u, p, q)
  \/ \E unique \in BOOLEAN : AddOrUpdate(x, unique)
  \/ \E u \in Users, id \in ItemInputs : RemoveFromCart(x, u, id)
  \/ \E u \in Users : ClearCartOf(x, u)

\* Concurrent AddToCart requests.
NextCart == \E x \in Slots : CartStep(x)

SpecCart == Init /\ [][NextCart]_vars

\* One order placement among the cart, admin and payment requests of one slot.
Next == PlaceStep("w1") \/ AuxStep("x1")

Spec == Init /\ [][Next]_vars

\* Concurrent order placements.
NextOrders == \E w \in Workers : PlaceStep(w) \/ DeadlockDetected(w)

SpecOrders == Init /\ [][NextOrders]_vars

\* The stock every product starts with where no admin request changes it.
InitialStock == [p \in Products |-> MaxStock]

\* The carts hold, of each product, nothing or MaxQty units when the requests
\* start; AddToCart brings in the other quantities.
InitShop ==
  /\ stock = InitialStock
  /\ price = [p \in Products |-> IF p = "p1" THEN 1 ELSE MaxPrice]
  /\ \E q \in [Users \X Products -> {0, MaxQty}] : cart = CartRows(q)
  /\ orders = {}
  /\ orderItems = {}
  /\ place = [w \in Workers |-> IdlePlace]
  /\ aux = [x \in Slots |-> IdleAux]
  /\ limiter = NewRateLimiter(MaxLimit, MaxWindow)

ShopStep(x) ==
  \/ \E u \in Users, p \in Products, q \in 1..MaxQty : AddToCart(x, u, p, q)
  \/ \E unique \in BOOLEAN : AddOrUpdate(x, unique)
  \/ \E u \in Users, id \in ItemInputs : RemoveFromCart(x, u, id)
  \/ \E o \in orders, st \in Statuses : UpdateOrderStatus(x, o.id, st)
  \/ \E o \in orders : ProcessCharge(x, o.user, o.id, TRUE)
  \/ SaveOrder(x)

\* Concurrent order placements among the cart, status and payment requests of
\* one slot, with no admin request on the products.
NextShop ==
  \/ \E w \in Workers : PlaceStep(w) \/ DeadlockDetected(w)
  \/ ShopStep("x1")

SpecShop == InitShop /\ [][NextShop]_vars

\* The next statement of the placement of worker w runs and succeeds.
Proceed(w) ==
  \/ CreateOrderItem(w)
  \/ \E a \in Addresses : CreateOrderRow(w, a)
  \/ CreateOrderItems(w)
  \/ ClearCart(w)
  \/ Commit(w)
  \/ LoadOrder(w)

\* Concurrent order placements whose goroutines keep running: a statement that
\* can run does run, and PostgreSQL's deadlock detector, which wakes up after
\* deadlock_timeout of a lock wait, ends every cycle of lock waits.
SpecOrdersFair ==
  /\ SpecOrders
  /\ \A w \in Workers : WF_vars(Proceed(w))
  /\ WF_vars(\E w \in Workers : DeadlockDetected(w))

\* ------------------------------------------------------------------ rate limiter
\* The clock and the periods are in minutes.  cleanup's ticker fires every
\* TickerMinutes.
TickerMinutes == 10

\* The bucket allow writes for a new client and at a reset.
FullBucket == [tokens |-> limiter.requests - 1, lastReset |-> limiter.now]

\* rl.clients with the bucket of clientIP set to b.
WithBucket(clientIP, b) ==
  [ip \in DOMAIN limiter.clients \cup {clientIP} |->
     IF ip = clientIP THEN b ELSE limiter.clients[ip]]

\* RateLimiter.allow(clientIP) under rl.mu, and the answer of Middleware: the
\* request goes on when ok, and is answered 429 otherwise.
allow(clientIP) ==
  LET exists == clientIP \in DOMAIN limiter.clients
      bucket == limiter.clients[clientIP]
      reset == [reset |-> limiter.now, allowed |-> 1]
      Answer(clients, since, ok) ==
        limiter' = [limiter EXCEPT !.clients = clients, !.since = since,
                                   !.last = [ip |-> clientIP, ok |-> ok]]
  IN  IF ~exists
        THEN Answer(WithBucket(clientIP, FullBucket),
                    [limiter.since EXCEPT ![clientIP] = reset], TRUE)
      ELSE IF limiter.now - bucket.lastReset >= limiter.windowMinutes
        THEN Answer(WithBucket(clientIP, FullBucket),
                    [limiter.since EXCEPT ![clientIP] = reset], TRUE)
      ELSE IF bucket.tokens > 0
        THEN Answer(WithBucket(clientIP, [bucket EXCEPT !.tokens = @ - 1]),
                    [limiter.since EXCEPT ![clientIP].allowed = @ + 1], TRUE)
      ELSE Answer(limiter.clients, limiter.since, FALSE)

\* One round of RateLimiter.cleanup's loop, at a tick of its ticker.
cleanup ==
  /\ limiter.now > 0
  /\ limiter.now % TickerMinutes = 0
  /\ LET old == {ip \in DOMAIN limiter.clients :
                   limiter.now - limiter.clients[ip].lastReset >= limiter.windowMinutes * 2}
     IN  /\ old # {}
         /\ limiter' = [limiter EXCEPT
                          !.clients = [ip \in DOMAIN limiter.clients \ old |-> limiter.clients[ip]]]

\* A minute passes on time.Now().
Tick ==
  /\ limiter.now < MaxTime
  /\ limiter' = [limiter EXCEPT !.now = @ + 1]

\* RATE_LIMIT_REQUESTS and RATE_LIMIT_WINDOW_MINUTES are read with getEnvInt
\* and Validate does not look at them.
InitLimiter ==
  /\ stock = [p \in Products |-> 0]
  /\ price = [p \in Products |-> 1]
  /\ cart = {}
  /\ orders = {}
  /\ orderItems = {}
  /\ place = [w \in Workers |-> IdlePlace]
  /\ aux = [x \in Slots |-> IdleAux]
  /\ \E requests \in 0..MaxLimit, windowMinutes \in 1..MaxWindow :
       limiter = NewRateLimiter(requests, windowMinutes)

NextLimiter ==
  \/ \E clientIP \in ClientIPs : allow(clientIP) /\ UNCHANGED <<db, place, aux>>
  \/ cleanup /\ UNCHANGED <<db, place, aux>>
  \/ Tick /\ UNCHANGED <<db, place, aux>>

SpecLimiter == InitLimiter /\ [][NextLimiter]_vars

\* ------------------------------------------------------------------ claims
\* C1: under concurrent placements the stock of a product is never negative,
\* and every step adds at most as many units of a product to the created orders
\* as it takes from the product's stock, so the quantities of the created orders
\* never sum to more than the stock the product started with.
C1_NoOverselling ==
  /\ [](\A p \in Products : stock[p] >= 0)
  /\ [][\A p \in Products :
          SumQuantity(ItemsOf(p))' - SumQuantity(ItemsOf(p)) <= stock[p] - stock[p]']_vars

\* Two placements have drained a product, and a third unit was refused by the
\* conditional update.
C1_Witness ==
  \E p \in Products, w \in Workers :
    /\ stock[p] = 0
    /\ SumQuantity(ItemsOf(p)) = MaxStock
    /\ place[w].result = "insufficient stock (update)"

\* Two placements of different users, each with a cart of one unit of product p,
\* that found one unit of p in stock, have both returned, neither with a
\* storage failure.
LastUnitRace(w1, w2, p) ==
  /\ w1 # w2
  /\ place[w1].pc = "done" /\ place[w2].pc = "done"
  /\ place[w1].user # place[w2].user
  /\ \A w \in {w1, w2} :
       /\ Len(place[w].cartItems) = 1
       /\ place[w].cartItems[1].product = p
       /\ place[w].cartItems[1].quantity = 1
       /\ place[w].cartItems[1].stock <= 1
       /\ place[w].result \notin {"persistence", "deadlock"}
  /\ place[w1].cartItems[1].stock = 1

\* C2: when two users race for the last unit of a product, exactly one
\* placement succeeds, the other fails for insufficient stock, the stock ends at
\* 0 and exactly one order exists.
C2_LastUnit ==
  \A w1, w2 \in Workers, p \in Products :
    LastUnitRace(w1, w2, p) =>
      /\ \E a, b \in {w1, w2} :
           /\ a # b
           /\ place[a].result = "ok"
           /\ place[b].result \in InsufficientStockError
      /\ stock[p] = 0
      /\ Cardinality(orders) = 1
      /\ SumQuantity(ItemsOf(p)) = 1

\* Both placements read stock 1 before either committed, and the conditional
\* update refused the second.
C2_Witness ==
  \E w1, w2 \in Workers, p \in Products :
    /\ LastUnitRace(w1, w2, p)
    /\ place[w2].cartItems[1].stock = 1
    /\ place[w2].result = "insufficient stock (update)"

CommitStep(w) == place[w].pc = "commit" /\ place'[w].pc = "load"

\* The rows of the cart snapshot of worker w.
Snapshot(w) == Range(place[w].cartItems)

\* The user's cart is still the one the placement read.
SnapshotIsCart(w) ==
  {<<it.id, it.quantity>> : it \in Snapshot(w)}
    = {<<c.id, c.quantity>> : c \in CartOf(place[w].user)}

C5_TotalCorrect ==
  /\ [](\A o \in orders :
          /\ ItemsOfOrder(o.id) # {}
          /\ o.total = SumSubtotal(ItemsOfOrder(o.id)))
  /\ [][/\ orderItems \subseteq orderItems'
        /\ \A o \in orders : \E o2 \in orders' : o2.id = o.id /\ o2.total = o.total]_vars

\* An order with a line item of quantity 2 whose product has since changed its
\* price.
C5_Witness ==
  \E o \in orders : \E it \in ItemsOfOrder(o.id) :
    /\ it.quantity = 2
    /\ price[it.product] # it.price

\* C6: two placements of the same user that read the same cart rows never both
\* create an order.
C6_SameCartOnce ==
  \A w1, w2 \in Workers :
    (w1 # w2 /\ place[w1].user = place[w2].user /\ Committed(w1) /\ Committed(w2)) =>
      {it.id : it \in Snapshot(w1)} \cap {it.id : it \in Snapshot(w2)} = {}

\* C7: a placement for a user without cart rows returns the empty-cart error
\* at once: it opens no transaction, creates no order and changes no table.
C7_EmptyCart ==
  [][\A w \in Workers :
       (/\ place[w].pc = "idle"
        /\ place'[w].pc # "idle"
        /\ CartOf(place'[w].user) = {}) =>
         /\ place'[w].pc = "done"
         /\ place'[w].result = "empty"
         /\ place'[w].order = Nil
         /\ db' = db]_vars

\* A placement has failed on an empty cart.
C7_Witness ==
  \E w \in Workers :
    /\ place[w].pc = "done"
    /\ place[w].result = "empty"
    /\ place[w].cartItems = <<>>

\* C8: the commit of a placement takes from each product's stock exactly the
\* quantity of the product in the cart snapshot, leaves every other product's
\* stock and every price alone, and adds exactly one order: the user's, pending,
\* with the request's shipping address and the sum of quantity * unit price.
C8_PlacementEffect ==
  [][\A w \in Workers :
       CommitStep(w) =>
         /\ stock' = [p \in Products |->
              stock[p] - SumQuantity({it \in Snapshot(w) : it.product = p})]
         /\ price' = price
         /\ \E o \in orders' :
              /\ o \notin orders
              /\ orders' = orders \cup {o}
              /\ o.id = place[w].order
              /\ o.user = place[w].user
              /\ o.status = "pending"
              /\ o.addr = place[w].addr
              /\ o.payment = NoPayment
              /\ o.total = SumSubtotal(Snapshot(w))]_vars

\* A placement of quantity 2 of a product with stock 2 has committed and the
\* stock is 0.
C8_Witness ==
  \E w \in Workers : \E it \in Snapshot(w) :
    /\ place[w].pc = "load"
    /\ it.quantity = 2
    /\ it.stock = 2
    /\ stock[it.product] = 0
    /\ \E o \in orders : o.id = place[w].order /\ o.user = place[w].user

\* C9: the tables never hold an order without line items or a line item
\* without its order, and the only step of a placement that changes a table is
\* its commit, which publishes the order, all its line items, the stock
\* decrements and the cart deletion together.
C9_VisibleAtCommit ==
  /\ [](/\ \A o \in orders : ItemsOfOrder(o.id) # {}
        /\ \A it \in orderItems : \E o \in orders : o.id = it.order)
  /\ [][\A w \in Workers :
          (place'[w] # place[w] /\ db' # db) =>
            /\ CommitStep(w)
            /\ \E o \in orders' \ orders : o.id = place[w].order
            /\ Cardinality({it \in orderItems' : it.order = place[w].order})
                 = Len(place[w].cartItems)
            /\ \A p \in Products :
                 stock'[p] = stock[p] - SumQuantity({it \in Snapshot(w) : it.product = p})
            /\ \A it \in Snapshot(w) : \A c \in cart' : c.id # it.id]_vars

\* A transaction holds all its writes, none of them in the tables yet.
C9_Witness ==
  \E w \in Workers :
    /\ place[w].pc = "commit"
    /\ Len(place[w].cartItems) = 2
    /\ \A p \in Products : place[w].dec[p] > 0
    /\ place[w].del # {}
    /\ \A o \in orders : o.id # place[w].order
    /\ \A id \in place[w].del : \E c \in cart : c.id = id

\* C10: an UpdateProduct whose request does not set the stock leaves the stock
\* of every product as it is: it does not write back the stock it read.
C10_NoStockWriteBack ==
  [][\A x \in Slots :
       (/\ aux[x].op = "product"
        /\ aux'[x].op = "idle"
        /\ aux[x].req.stock = NoField) => stock' = stock]_vars

\* C11: a placement that has returned an error has left nothing behind, and one
\* that has returned an order has committed it: when the request is done, its
\* order is in the orders table exactly when the result is the order.
C11_NoPartialSuccess ==
  \A w \in Workers :
    place[w].pc = "done" =>
      (place[w].result = "ok" <=> \E o \in orders : o.id = place[w].order)

\* The request of slot x returns in this step, with the response of handler call.
Returns(x, call) ==
  /\ aux'[x] # aux[x]
  /\ "last" \in DOMAIN aux'[x]
  /\ aux'[x].last.call = call

\* C12: GetOrder returns an order only when it exists and belongs to the
\* requester.  When the lookup itself works, a missing order gives the not-found
\* error, an order of another user the authorization error, an own order the
\* order; every error is answered 404 without any order data.
C12_GetOrderOwner ==
  [][\A x \in Slots :
       Returns(x, "GetOrder") =>
         LET r == aux'[x].last
             found == {o \in orders : o.id = r.order}
         IN /\ \A o \in r.data : o \in orders /\ o.id = r.order /\ o.user = r.user
            /\ (r.err # "nil" => r.data = {} /\ r.status = 404)
            /\ (r.err # "failed to get order" =>
                  /\ (found = {} => r.err = "order not found")
                  /\ (\E o \in found : o.user # r.user) =>
                       r.err = "unauthorized to view this order"
                  /\ (\E o \in found : o.user = r.user) =>
                       r.err = "nil" /\ r.data = found /\ r.status = 200)]_vars

\* One request was refused an existing order of another user, another request
\* got its own order.
C12_Witness ==
  \E x, y \in Slots :
    /\ "last" \in DOMAIN aux[x] /\ "last" \in DOMAIN aux[y]
    /\ aux[x].last.call = "GetOrder" /\ aux[y].last.call = "GetOrder"
    /\ aux[x].last.err = "unauthorized to view this order"
    /\ \E o \in orders : o.id = aux[x].last.order
    /\ aux[y].last.data # {}

\* The rows that precede page `page` of `limit` rows each, as a number: Limb
\* stands for every count that is more than any table of the model holds.
RowsBefore(page, limit) ==
  IF LessThanOne(page) THEN 0
  ELSE IF page[2] = 0 /\ page[3] = 0 /\ page[4] = 0 /\ (page[1] - 1) * limit < Limb
  THEN (page[1] - 1) * limit
  ELSE Limb

\* The orders a list request is about: the user's, or all.
Matching(r) ==
  IF r.call = "ListUserOrders" THEN {o \in orders : o.user = r.user} ELSE orders

\* C13: for every page and size, a list response counts all the matching
\* orders and holds the `limit` orders that follow the first (page - 1) * limit
\* of a newest-first order of them, page below 1 counting as 1, and limit being
\* the size, 20 for a size below 1 and 100 for a size above 100.
C13_Pagination ==
  [][\A x \in Slots :
       (Returns(x, "ListUserOrders") \/ Returns(x, "ListAllOrders")) =>
         LET r == aux'[x].last
             limit == IF r.size < 1 THEN 20 ELSE IF r.size > 100 THEN 100 ELSE r.size
         IN /\ r.total = Cardinality(Matching(r))
            /\ Len(r.items) <= limit
            /\ \E f \in NewestFirst(Matching(r)) :
                 r.items = Ids(Page(f, RowsBefore(r.page, limit), limit))]_vars

\* Slot x has asked for page `page` of user u's orders, n to a page.
AskedPage(x, u, page, n) ==
  /\ "last" \in DOMAIN aux[x]
  /\ aux[x].last.call = "ListUserOrders"
  /\ aux[x].last.user = u
  /\ aux[x].last.page = Int64(page)
  /\ aux[x].last.size = n

\* C14: page 1 and page 2 of a user's orders, asked for with the same size and
\* no write in between, share no order, and page 1 followed by page 2 is the
\* start of a newest-first order of the user's orders.
C14_PagesDisjoint ==
  \A x, y \in Slots, u \in Users, n \in 1..100 :
    (x # y /\ AskedPage(x, u, 1, n) /\ AskedPage(y, u, 2, n)) =>
      /\ Range(aux[x].last.items) \cap Range(aux[y].last.items) = {}
      /\ \E f \in NewestFirst({o \in orders : o.user = u}) :
           aux[x].last.items \o aux[y].last.items = Ids(Page(f, 0, 2 * n))

\* C15: every order's status is one of the four of the allow-list and no
\* status update creates an order; an update with another status is refused
\* with the invalid-status error whether or not the order exists, an update of a
\* missing order with the not-found error, and a refused update changes no table.
C15_StatusAllowList ==
  /\ [](\A o \in orders : o.status \in Statuses)
  /\ [][/\ {o.id : o \in orders'} = {o.id : o \in orders}
        /\ \A x \in Slots :
             /\ Returns(x, "UpdateOrderStatus") =>
                  /\ db' = db
                  /\ aux'[x].last.err =
                       IF aux'[x].last.req \notin Statuses THEN "invalid order status"
                       ELSE "order not found"
                  /\ (aux'[x].last.req \in Statuses =>
                        \A o \in orders : o.id # aux'[x].last.order)
             /\ (aux[x].op = "idle" /\ aux'[x].op = "status") =>
                  /\ aux'[x].req \in Statuses
                  /\ \E o \in orders : o.id = aux'[x].order.id]_vars

\* A status outside the allow-list was refused for an existing order, and a
\* valid status for a missing order.
C15_Witness ==
  \E x, y \in Slots :
    /\ "last" \in DOMAIN aux[x] /\ "last" \in DOMAIN aux[y]
    /\ aux[x].last.call = "UpdateOrderStatus" /\ aux[y].last.call = "UpdateOrderStatus"
    /\ aux[x].last.err = "invalid order status"
    /\ \E o \in orders : o.id = aux[x].last.order
    /\ aux[y].last.err = "order not found"
    /\ aux[y].last.req \in Statuses

\* C16: an update of an existing order to a status of the allow-list is never
\* refused, whatever the order's status, and when it is saved the order has the
\* requested status.
C16_AnyTransition ==
  [][\A x \in Slots :
       /\ Returns(x, "UpdateOrderStatus") =>
            ~(/\ aux'[x].last.req \in Statuses
              /\ \E o \in orders : o.id = aux'[x].last.order)
       /\ (aux[x].op = "status" /\ aux'[x].op = "idle") =>
            \E o \in orders' : o.id = aux[x].order.id /\ o.status = aux[x].req]_vars

\* An update of a shipped order back to pending has been accepted and is about
\* to be saved.
C16_Witness ==
  \E x \in Slots :
    /\ aux[x].op = "status"
    /\ aux[x].req = "pending"
    /\ \E o \in orders : o.id = aux[x].order.id /\ o.status = "shipped"

\* C18: the save of a charge changes no order that is not pending: a paid,
\* shipped or cancelled order keeps its status and its payment info.
C18_ChargeOnlyPending ==
  [][\A x \in Slots :
       (aux[x].op = "charge" /\ aux'[x].op = "idle") =>
         \A o \in orders : (o.id = aux[x].order.id /\ o.status # "pending") => o \in orders']_vars

\* C17: the cart never holds two rows of the same user and product, and adding
\* a product whose row is in the cart sets that row's quantity without adding a
\* row.
C17_CartUnique ==
  /\ [](\A r1, r2 \in cart : (r1.user = r2.user /\ r1.product = r2.product) => r1 = r2)
  /\ [][\A x \in Slots :
          (/\ aux[x].op = "add"
           /\ aux'[x].op = "idle"
           /\ \E r \in cart : r.id = aux[x].existing) =>
            /\ {r.id : r \in cart'} = {r.id : r \in cart}
            /\ \E r \in cart' : r.id = aux[x].existing /\ r.quantity = aux[x].quantity]_vars

\* C19: POST /orders is answered 201 when the placement returns the order, 400
\* for the empty-cart and insufficient-stock errors and 500 for a storage
\* failure of the placement.
C19_HttpStatus ==
  \A w \in Workers :
    place[w].pc = "done" =>
      place[w].http = IF place[w].result = "ok" THEN 201
                      ELSE IF place[w].result \in {"empty"} \cup InsufficientStockError THEN 400
                      ELSE 500

\* C20: for every client IP the limiter allows at most `requests` requests
\* between two consecutive resets of that client's bucket, a reset of a bucket
\* comes at least windowMinutes after the previous reset of that client, a
\* request changes the bucket and the count of no other IP, and the token count
\* of a bucket is never negative.
C20_RateLimit ==
  /\ [](\A ip \in ClientIPs : limiter.since[ip].allowed <= limiter.requests)
  /\ [](\A ip \in DOMAIN limiter.clients : limiter.clients[ip].tokens >= 0)
  /\ [][\A ip \in ClientIPs :
          /\ limiter'.since[ip].reset # limiter.since[ip].reset
               => \/ limiter.since[ip].reset = -1
                  \/ limiter'.since[ip].reset - limiter.since[ip].reset >= limiter.windowMinutes
          /\ \/ limiter'.since[ip] # limiter.since[ip]
             \/ /\ ip \in DOMAIN limiter'.clients
                /\ ip \notin DOMAIN limiter.clients \/ limiter'.clients[ip] # limiter.clients[ip]
             => limiter'.last.ip = ip]_vars

\* The cart item whose stock the next statement of worker w decrements, and the
\* stock of its product as the transaction of w sees it.
DecrementItem(w) == place[w].cartItems[place[w].i]
SeenStock(w, p) == stock[p] - place[w].dec[p]

C22_StockDecidedByUpdate ==
  [][\A w \in Workers :
       /\ place[w].pc = "tx"
       /\ place'[w].result \in InsufficientStockError
       => SeenStock(w, DecrementItem(w).product) < DecrementItem(w).quantity]_vars

\* The items of the cart snapshot of worker w, by line, at the snapshot's prices.
SnapshotLines(w) ==
  {[line |-> k, product |-> place[w].cartItems[k].product,
    price |-> place[w].cartItems[k].price,
    quantity |-> place[w].cartItems[k].quantity] : k \in 1..Len(place[w].cartItems)}

\* C23: the line items a placement commits carry the unit prices of its cart
\* snapshot and the order's total is the sum of those prices times the
\* quantities, whatever the products cost by then; and no step changes or
\* removes a line item once it exists.
C23_PriceFrozen ==
  /\ [][\A w \in Workers :
          CommitStep(w) =>
            /\ \A it \in orderItems' \ orderItems :
                 \E s \in SnapshotLines(w) :
                   s.line = it.line /\ s.product = it.product /\ s.price = it.price
            /\ \A o \in orders' \ orders : o.total = SumSubtotal(SnapshotLines(w))]_vars
  /\ [][orderItems \subseteq orderItems']_vars

\* A placement is about to commit a line item at the price of its snapshot
\* while the product's price has been updated since the snapshot was read.
C23_Witness ==
  \E w \in Workers :
    /\ place[w].pc = "commit"
    /\ \E k \in 1..Len(place[w].cartItems) :
         /\ place[w].orderItems[k].price = place[w].cartItems[k].price
         /\ price[place[w].cartItems[k].product] # place[w].cartItems[k].price

\* C24: every placement that has started eventually returns, with a commit or
\* an abort behind it, whatever the other placements do.
C24_PlacementEnds ==
  \A w \in Workers : (place[w].pc # "idle") ~> (place[w].pc = "done")

\* Two placements locked the two products in opposite orders; the deadlock was
\* ended by failing one of them, and the other has committed.
C24_Witness ==
  \E w1, w2 \in Workers :
    /\ place[w1].result = "deadlock"
    /\ Committed(w2)
    /\ Len(place[w1].cartItems) = 2 /\ Len(place[w2].cartItems) = 2
    /\ place[w1].cartItems[1].product = place[w2].cartItems[2].product
    /\ place[w1].cartItems[2].product = place[w2].cartItems[1].product

\* C25: RemoveFromCart of a user deletes the row of the given id when it is a
\* row of that user, and nothing otherwise; ClearCart and AddToCart of a user
\* leave the rows of every other user as they are.
C25_CartOwner ==
  [][\A x \in Slots :
       /\ Returns(x, "RemoveFromCart") =>
            LET r == aux'[x].last
            IN  cart' = {c \in cart : ~(c.id = r.item /\ c.user = r.user)}
       /\ Returns(x, "ClearCart") =>
            /\ {c \in cart' : c.user # aux'[x].last.user} = {c \in cart : c.user # aux'[x].last.user}
            /\ {c \in cart' : c.user = aux'[x].last.user} = {}
       /\ (aux[x].op = "add" /\ aux'[x].op = "idle") =>
            {c \in cart' : c.user # aux[x].user} = {c \in cart : c.user # aux[x].user}]_vars

\* A user has asked to remove a row of another user's cart, and the row is
\* still there.
C25_Witness ==
  \E x \in Slots :
    /\ "last" \in DOMAIN aux[x]
    /\ aux[x].last.call = "RemoveFromCart"
    /\ \E c \in cart : c.id = aux[x].last.item /\ c.user # aux[x].last.user

\* C26: with no admin request on the products, the stock a product started
\* with is, in every committed state, its current stock plus the quantities of
\* the product in the line items of all orders.
C26_StockConserved ==
  \A p \in Products : InitialStock[p] = stock[p] + SumQuantity(ItemsOf(p))

\* Both placements have committed, an order has been paid since, and stock has
\* gone into the orders.
C26_Witness ==
  /\ \A w \in Workers : Committed(w)
  /\ \E o \in orders : o.status = "paid"
  /\ \E p \in Products : stock[p] = 0 /\ SumQuantity(ItemsOf(p)) = InitialStock[p]

\* C27: every cart row a placement's commit deletes is, in product and
\* quantity, a line item of the order that commit creates.
C27_ClearOnlyOrdered ==
  [][\A w \in Workers :
       CommitStep(w) =>
         \A c \in cart \ cart' :
           \E it \in orderItems' \ orderItems :
             /\ it.order = place[w].order
             /\ it.product = c.product
             /\ it.quantity = c.quantity]_vars

\* C28: the save of UpdateOrderStatus changes the status of its order and
\* nothing else: the payment info, total, owner and shipping address the row
\* holds when the save runs are still there after it, and the status is the
\* requested one.
C28_StatusOnly ==
  [][\A x \in Slots :
       (aux[x].op = "status" /\ aux'[x].op = "idle") =>
         \A o \in orders :
           o.id = aux[x].order.id =>
             \E o2 \in orders' :
               /\ o2.id = o.id
               /\ o2.status = aux[x].req
               /\ o2.payment = o.payment
               /\ o2.total = o.total
               /\ o2.user = o.user
               /\ o2.addr = o.addr]_vars

\* C29: a charge of a paid order is refused with 'order is already paid', a
\* charge by a user who does not own the order is refused, neither changes
\* anything, and no charge is saved as successful on an order that is paid
\* with a transaction id when the save runs, so a paid order never gets a
\* second transaction id.
C29_ChargeOnce ==
  [][\A x \in Slots :
       /\ Returns(x, "ProcessCharge") =>
            /\ db' = db
            /\ \A o \in orders :
                 o.id = aux'[x].last.order =>
                   /\ o.user # aux'[x].last.user =>
                        aux'[x].last.err = "unauthorized to process payment for this order"
                   /\ (o.user = aux'[x].last.user /\ o.status = "paid") =>
                        aux'[x].last.err = "order is already paid"
       /\ (aux[x].op = "charge" /\ aux'[x].op = "idle") =>
            \A o \in orders :
              o.id = aux[x].order.id => ~(o.status = "paid" /\ o.payment # NoPayment)]_vars

\* C30: the page and size a list response reports are the page and size its
\* query applied: the size is the limit of the query, the page is the page the
\* offset was computed from, and the response holds at most as many items as
\* the size it reports.
C30_ReportedPaging ==
  [][\A x \in Slots :
       (Returns(x, "ListUserOrders") \/ Returns(x, "ListAllOrders")) =>
         LET r == aux'[x].last
         IN /\ r.size = r.limit
            /\ r.page = ClampPage(r.page)
            /\ Len(r.items) <= r.size]_vars

====
